---- MODULE Spec2Model ----
(***************************************************************************)
(* A model of the WAD archive layer of rust-doom:                          *)
(*   src/src/base/lib.rs     ReadExt::read_at_least / read_binary          *)
(*   src/src/wad/archive.rs  Archive::open, the queries, the typed reads   *)
(*                                                                         *)
(* The container on disk is a byte stream of fileLen bytes with a shared   *)
(* cursor pos.  The byte stored at absolute offset k is identified with k, *)
(* so the bytes a read returns say where in the file they came from.  What *)
(* the header and the directory entries decode to is chosen by the         *)
(* environment when the record has been read in full.                      *)
(***************************************************************************)
EXTENDS Integers, Sequences, FiniteSets, TLC

\* ------------------------------------------------------------------ bounds
\* Largest header.num_lumps the environment writes into a header.
MaxLumps == 3
\* How many bytes less than asked-and-available one read() call may deliver.
MaxShortfall == 1
\* Nested zero-progress read_at_least frames the stack holds before overflow.
MaxStack == 2

\* ------------------------------------------------------- program constants
\* size_of::<WadInfo>(): magic 4 bytes, num_lumps u32, info_table_offset u32.
HeaderSize == 12
\* size_of::<WadLump>(): file_pos u32, size u32, name 8 bytes.
EntrySize == 16
\* The sentinel b"THINGS\0\0".to_wad_name().
Sentinel == "THINGS"

\* ---------------------------------------------------------- the container
\* Layout of the files the environment offers: the header, two unused bytes,
\* the directory, then two bytes of lump data behind the longest directory.
DirOffset == HeaderSize + 2
\* Where the directory of n entries ends.
FullLen(n) == DirOffset + EntrySize * n
DataStart == FullLen(MaxLumps)
\* File lengths offered: complete, the last data byte missing, a directory
\* cut one byte short of its j-th entry, a header cut short.
FileLens == {DataStart + 2, DataStart + 1, HeaderSize - 1}
              \cup {FullLen(j) - 1 : j \in 1..MaxLumps}
\* The 4-byte magic of a header.
Magics == {"IWAD", "PWAD", "JUNK"}
\* Raw 8-byte names as stored in a directory entry.
RawNames == {"E1M1", "e1m1", "THINGS", "things"}
\* (file_pos, size) pairs stored in a directory entry: a virtual lump, a
\* two-byte lump, and a one-byte lump that overlaps it.
Extents == {<<DataStart, 0>>, <<DataStart, 2>>, <<DataStart + 1, 1>>}
RawLumps == {[name |-> n, file_pos |-> e[1], size |-> e[2]] : n \in RawNames, e \in Extents}
\* size_of::<T>() of the record types the typed reads are instantiated at.
ElemSizes == {0, 1, 2}
\* Names and positions callers ask about.
QueryNames == {"THINGS", "E1M1", "LINEDEFS"}
Positions == 0..MaxLumps
Callers == {1, 2}

\* ----------------------------------------------------------------- helpers
\* Option<usize>: None is <<>>, Some(x) is <<x>>.
None == <<>>
Some(x) == <<x>>

\* WadName::canonicalise: upper-cases the identifier (padding is not modelled:
\* raw names carry no padding here).
canonicalise(raw) ==
    CASE raw = "e1m1" -> "E1M1"
      [] raw = "things" -> "THINGS"
      [] OTHER -> raw

\* wad_type_from_info: Some(variant) for the two recognised magics.
wad_type_from_info(magic) ==
    CASE magic = "IWAD" -> Some("Initial")
      [] magic = "PWAD" -> Some("Patch")
      [] OTHER -> None

\* The bytes of the file in [from, from + n).
FileBytes(from, n) == [k \in 1..n |-> from + k - 1]

Min(a, b) == IF a < b THEN a ELSE b
Max(a, b) == IF a > b THEN a ELSE b

\* Read::read on the file: the byte counts one call may return for a buffer
\* of `need` bytes with the cursor at `at`: 0 at end of file, otherwise up to
\* MaxShortfall less than what is asked and available.
ReadCounts(need, at, len) ==
    LET m == Min(need, Max(0, len - at))
    IN  IF m = 0 THEN {0} ELSE Max(1, m - MaxShortfall)..m

\* HashMap::insert.
MapInsert(m, k, v) == [n \in DOMAIN m \cup {k} |-> IF n = k THEN v ELSE m[n]]
\* HashMap::get(..).map(|x| *x).
MapGet(m, k) == IF k \in DOMAIN m THEN Some(m[k]) ELSE None
EmptyMap == [n \in {} |-> 0]

\* ------------------------------------------------------------------- state
VARIABLES
    state,      \* "Closed", "Opening", "Open", "Failed" (open returned Err), "Aborted" (panic)
    pc,         \* where Archive::open stands
    err,        \* the Err message or panic cause
    fileLen,    \* length of the container file on disk
    pos,        \* cursor of Archive.file
    rd,         \* the read_at_least in progress in open: bytes still to fill, idle frames
    header,     \* the decoded WadInfo
    i_lump,     \* loop counter of the directory loop
    lumps,      \* Vec<LumpInfo>
    index_map,  \* HashMap<WadName, usize>
    levels,     \* Vec<usize>
    meta,       \* WadMetadata
    calls       \* per caller: the typed read in progress, or the last value returned

vars == <<state, pc, err, fileLen, pos, rd, header, i_lump, lumps, index_map, levels, meta, calls>>
archive == <<lumps, index_map, levels, meta>>

NoRead == [need |-> 0, stall |-> 0]
NoHeader == [num_lumps |-> 0, info_table_offset |-> 0]
Idle == [pc |-> "idle"]

Init ==
    /\ state = "Closed"
    /\ pc = "open_file"
    /\ err = ""
    /\ fileLen \in FileLens
    /\ pos = 0
    /\ rd = NoRead
    /\ header = NoHeader
    /\ i_lump = 0
    /\ lumps = <<>>
    /\ index_map = EmptyMap
    /\ levels = <<>>
    /\ meta = "none"
    /\ calls = [c \in Callers |-> Idle]

\* A panic: the thread unwinds where it stands.
Abort(cause) ==
    /\ state' = "Aborted"
    /\ err' = cause

\* A panic inside a call of caller c on the Archive.
Panic(c, op, arg, elem, cause) ==
    /\ Abort(cause)
    /\ calls' = [calls EXCEPT ![c] = [pc |-> "panicked", op |-> op, arg |-> arg, elem |-> elem]]

\* open returns Err(msg): the locals, the file among them, are dropped.
Fail(msg) ==
    /\ state' = "Failed"
    /\ err' = msg
    /\ pc' = "done"
    /\ pos' = 0
    /\ rd' = NoRead
    /\ header' = NoHeader
    /\ i_lump' = 0
    /\ lumps' = <<>>
    /\ index_map' = EmptyMap
    /\ levels' = <<>>
    /\ meta' = "none"

\* ------------------------------------------------------------ Archive::open
\* File::open(wad_path), then the call of read_binary::<WadInfo>().
OpenFile ==
    /\ state = "Closed"
    /\ \/ /\ Fail("Could not open WAD file")
          /\ UNCHANGED <<fileLen, calls>>
       \/ /\ state' = "Opening"
          /\ pc' = "read_header"
          /\ rd' = [need |-> HeaderSize, stall |-> 0]
          /\ UNCHANGED <<err, fileLen, pos, header, i_lump, lumps, index_map, levels, meta, calls>>

\* One frame of read_at_least inside read_binary, as open calls it: a frame
\* with an empty buffer returns Ok, otherwise it issues one read() and
\* recurses on the rest of the buffer.  read_binary's Err is unwrapped.
OpenRead ==
    /\ state = "Opening"
    /\ pc \in {"read_header", "read_entry"}
    /\ \/ /\ rd.need = 0
          /\ pc' = IF pc = "read_header" THEN "parse_header" ELSE "parse_entry"
          /\ rd' = NoRead
          /\ UNCHANGED <<state, err, pos>>
       \/ /\ rd.need > 0
          /\ Abort("unwrap: read error")
          /\ UNCHANGED <<pc, pos, rd>>
       \/ /\ rd.need > 0
          /\ \E n \in ReadCounts(rd.need, pos, fileLen) :
                /\ n > 0
                /\ pos' = pos + n
                /\ rd' = [need |-> rd.need - n, stall |-> 0]
          /\ UNCHANGED <<state, pc, err>>
       \/ /\ rd.need > 0
          /\ 0 \in ReadCounts(rd.need, pos, fileLen)
          /\ IF rd.stall < MaxStack
               THEN /\ rd' = [rd EXCEPT !.stall = @ + 1]
                    /\ UNCHANGED <<state, err>>
               ELSE /\ Abort("stack overflow")
                    /\ UNCHANGED rd
          /\ UNCHANGED <<pc, pos>>
    /\ UNCHANGED <<fileLen, header, i_lump, lumps, index_map, levels, meta, calls>>

\* The header record is decoded and wad_type_from_info checks its magic.
ParseHeader(counts) ==
    /\ state = "Opening"
    /\ pc = "parse_header"
    /\ \E magic \in Magics, n \in counts :
          IF wad_type_from_info(magic) = None
            THEN /\ Fail("Invalid WAD file: Incorrect header id.")
                 /\ UNCHANGED <<fileLen, calls>>
            ELSE /\ header' = [num_lumps |-> n, info_table_offset |-> DirOffset]
                 /\ pc' = "seek_dir"
                 /\ UNCHANGED <<state, err, fileLen, pos, rd, i_lump, lumps, index_map, levels, meta, calls>>

\* Mutant: the seek is left out, the cursor stays where it is.
SeekSkipped(cur, offset) == cur

\* SeekFrom::Start(offset) from cursor `cur`.
SeekStart(cur, offset) == offset

\* file.seek(SeekFrom::Start(header.info_table_offset)).unwrap()
SeekDir ==
    /\ state = "Opening"
    /\ pc = "seek_dir"
    /\ \/ /\ Abort("unwrap: seek error")
          /\ UNCHANGED <<pc, pos>>
       \/ /\ pos' = SeekStart(pos, header.info_table_offset)
          /\ pc' = "loop"
          /\ UNCHANGED <<state, err>>
    /\ UNCHANGED <<fileLen, rd, header, i_lump, lumps, index_map, levels, meta, calls>>

\* for i_lump in 0 .. header.num_lumps: the next iteration, or the loop's end.
LoopHead ==
    /\ state = "Opening"
    /\ pc = "loop"
    /\ IF i_lump < header.num_lumps
         THEN /\ pc' = "read_entry"
              /\ rd' = [need |-> EntrySize, stall |-> 0]
         ELSE /\ pc' = "load_meta"
              /\ UNCHANGED rd
    /\ UNCHANGED <<state, err, fileLen, pos, header, i_lump, lumps, index_map, levels, meta, calls>>

\* Mutant: the sentinel's own position is recorded.
LevelMarkerSelf(i) == i

\* The position of a level's header lump: the one before the sentinel.
LevelMarker(i) == i - 1

\* Mutant: an entry whose name is already mapped does not replace it.
IndexOnInsertFirstWins(m, name, at) == IF name \in DOMAIN m THEN m ELSE MapInsert(m, name, at)

\* What the name map holds for `name` once the entry at position `at` is in.
IndexOnInsert(m, name, at) == MapInsert(m, name, at)

\* The body of the directory loop after read_binary::<WadLump>().
ParseEntry(raws) ==
    /\ state = "Opening"
    /\ pc = "parse_entry"
    /\ \E raw \in raws :
          LET name == canonicalise(raw.name)
          IN  /\ index_map' = IndexOnInsert(index_map, name, Len(lumps))
              /\ lumps' = Append(lumps, [name |-> name, offset |-> raw.file_pos, size |-> raw.size])
              /\ IF name = Sentinel
                   THEN IF i_lump > 0
                          THEN /\ levels' = Append(levels, LevelMarker(i_lump))
                               /\ i_lump' = i_lump + 1
                               /\ pc' = "loop"
                               /\ UNCHANGED <<state, err>>
                          ELSE /\ Abort("assertion failed: i_lump > 0")
                               /\ UNCHANGED <<levels, i_lump, pc>>
                   ELSE /\ i_lump' = i_lump + 1
                        /\ pc' = "loop"
                        /\ UNCHANGED <<state, err, levels>>
    /\ UNCHANGED <<fileLen, pos, rd, header, meta, calls>>

\* WadMetadata::from_file(meta_path) and the construction of the Archive.
LoadMeta ==
    /\ state = "Opening"
    /\ pc = "load_meta"
    /\ \/ /\ Fail("metadata error")
          /\ UNCHANGED <<fileLen, calls>>
       \/ /\ state' = "Open"
          /\ pc' = "done"
          /\ meta' = "metadata"
          /\ header' = NoHeader
          /\ i_lump' = 0
          /\ UNCHANGED <<err, fileLen, pos, rd, lumps, index_map, levels, calls>>

\* --------------------------------------------------------- the typed reads
\* A Vec<T> or a T as decoded from `buf`: records of `elem` bytes each.
Records(buf, elem, count) ==
    [r \in 1..count |-> SubSeq(buf, (r - 1) * elem + 1, r * elem)]

\* Caller c steps; every other caller with a read between its seek and its
\* last read() is marked: its cursor was moved under it.
Disturb(c, mine) ==
    [d \in Callers |->
        IF d = c THEN mine
        ELSE IF calls[d].pc = "read" THEN [calls[d] EXCEPT !.disturbed = TRUE]
        ELSE calls[d]]

\* The call has passed its checks: the seek, then the first frame of
\* read_at_least over `need` bytes.
SeekLump(c, op, index, elem, need) ==
    \/ /\ Panic(c, op, index, elem, "unwrap: seek error")
       /\ UNCHANGED pos
    \/ /\ pos' = SeekStart(pos, lumps[index + 1].offset)
       /\ calls' = Disturb(c, [pc |-> "read", op |-> op, arg |-> index, elem |-> elem,
                               need |-> need, stall |-> 0, buf |-> <<>>,
                               from |-> pos, disturbed |-> FALSE])
       /\ UNCHANGED <<state, err>>

\* Mutant: the entry is moved out of the Vec (self.lumps.remove(index)).
LumpsAfterReadTaken(index) ==
    IF index < Len(lumps)
      THEN SubSeq(lumps, 1, index) \o SubSeq(lumps, index + 2, Len(lumps))
      ELSE lumps

\* let info = self.lumps[index]: LumpInfo is Copy, the Vec keeps its entry.
LumpsAfterRead(index) == lumps

\* read_lump::<T>(index) up to and including its seek.
ReadLump(c, index, elem) ==
    /\ state = "Open"
    /\ calls[c].pc # "read"
    /\ IF index >= Len(lumps)
         THEN /\ Panic(c, "read_lump", index, elem, "index out of bounds")
              /\ UNCHANGED pos
         ELSE LET info == lumps[index + 1]
              IN  IF ~(info.size > 0)
                    THEN /\ Panic(c, "read_lump", index, elem, "assertion failed: info.size > 0")
                         /\ UNCHANGED pos
                    ELSE IF elem = 0
                    THEN /\ Panic(c, "read_lump", index, elem, "remainder with a divisor of zero")
                         /\ UNCHANGED pos
                    ELSE IF ~(info.size % elem = 0)
                    THEN /\ Panic(c, "read_lump", index, elem, "assertion failed: info.size % size_of == 0")
                         /\ UNCHANGED pos
                    ELSE SeekLump(c, "read_lump", index, elem, info.size)
    /\ lumps' = LumpsAfterRead(index)
    /\ UNCHANGED <<pc, fileLen, rd, header, i_lump, index_map, levels, meta>>

\* read_lump_single::<T>(index) up to and including its seek.
ReadLumpSingle(c, index, elem) ==
    /\ state = "Open"
    /\ calls[c].pc # "read"
    /\ IF index >= Len(lumps)
         THEN /\ Panic(c, "read_lump_single", index, elem, "index out of bounds")
              /\ UNCHANGED pos
         ELSE LET info == lumps[index + 1]
              IN  IF ~(info.size = elem)
                    THEN /\ Panic(c, "read_lump_single", index, elem, "assertion failed: info.size == size_of")
                         /\ UNCHANGED pos
                    ELSE SeekLump(c, "read_lump_single", index, elem, elem)
    /\ lumps' = LumpsAfterRead(index)
    /\ UNCHANGED <<pc, fileLen, rd, header, i_lump, index_map, levels, meta>>

\* The value a typed read returns once its buffer is full.
ReadResult(call) ==
    IF call.op = "read_lump"
      THEN Records(call.buf, call.elem, lumps[call.arg + 1].size \div call.elem)
      ELSE Records(call.buf, call.elem, 1)

\* Mutant: a positioned read at the entry's own offset plus what is read.
ReadFromEntry(call) == lumps[call.arg + 1].offset + Len(call.buf)

\* Where in the file the next read() of a call takes its bytes from.
ReadFrom(call) == pos

\* One frame of read_at_least inside a typed read; its Err is unwrapped.
CallRead(c) ==
    /\ state = "Open"
    /\ calls[c].pc = "read"
    /\ LET call == calls[c]
       IN  \/ /\ call.need = 0
              /\ calls' = [calls EXCEPT ![c] =
                              [pc |-> "done", op |-> call.op, arg |-> call.arg,
                               elem |-> call.elem, result |-> ReadResult(call),
                               from |-> call.from, disturbed |-> call.disturbed]]
              /\ UNCHANGED <<state, err, pos>>
           \/ /\ call.need > 0
              /\ Panic(c, call.op, call.arg, call.elem, "unwrap: read error")
              /\ UNCHANGED pos
           \/ /\ call.need > 0
              /\ \E n \in ReadCounts(call.need, ReadFrom(call), fileLen) :
                    /\ n > 0
                    /\ pos' = ReadFrom(call) + n
                    /\ calls' = Disturb(c, [call EXCEPT !.need = @ - n, !.stall = 0,
                                                        !.buf = @ \o FileBytes(ReadFrom(call), n)])
              /\ UNCHANGED <<state, err>>
           \/ /\ call.need > 0
              /\ 0 \in ReadCounts(call.need, ReadFrom(call), fileLen)
              /\ IF call.stall < MaxStack
                   THEN /\ calls' = [calls EXCEPT ![c].stall = @ + 1]
                        /\ UNCHANGED <<state, err>>
                   ELSE Panic(c, call.op, call.arg, call.elem, "stack overflow")
              /\ UNCHANGED pos
    /\ UNCHANGED <<pc, fileLen, rd, header, i_lump, lumps, index_map, levels, meta>>

\* read_lump_by_name::<T>(name) up to and including its seek.
ReadLumpByName(c, name, elem) ==
    IF MapGet(index_map, name) = None
      THEN /\ state = "Open"
           /\ calls[c].pc # "read"
           /\ Panic(c, "read_lump_by_name", name, elem, "No such lump")
           /\ UNCHANGED <<pc, fileLen, pos, rd, header, i_lump, lumps, index_map, levels, meta>>
      ELSE ReadLump(c, MapGet(index_map, name)[1], elem)

\* -------------------------------------------------------------- the queries
num_levels == Len(levels)
get_lump_name(lump_index) == lumps[lump_index + 1].name
get_level_lump_index(level_index) == levels[level_index + 1]
get_level_name(level_index) == get_lump_name(levels[level_index + 1])
num_lumps == Len(lumps)
get_lump_index(name) == MapGet(index_map, name)
is_virtual_lump(lump_index) == lumps[lump_index + 1].size = 0
get_metadata == meta

\* Whether the Vec indexing of query `op` with argument `arg` is in range.
InRange(op, arg) ==
    CASE op \in {"get_lump_name", "is_virtual_lump"} -> arg < Len(lumps)
      [] op = "get_level_lump_index" -> arg < Len(levels)
      [] op = "get_level_name" -> arg < Len(levels) /\ levels[arg + 1] < Len(lumps)
      [] OTHER -> TRUE

\* What the query `op` returns for argument `arg`.
QueryValue(op, arg) ==
    CASE op = "num_levels" -> num_levels
      [] op = "get_level_lump_index" -> get_level_lump_index(arg)
      [] op = "get_level_name" -> get_level_name(arg)
      [] op = "num_lumps" -> num_lumps
      [] op = "get_lump_index" -> get_lump_index(arg)
      [] op = "get_lump_name" -> get_lump_name(arg)
      [] op = "is_virtual_lump" -> is_virtual_lump(arg)
      [] op = "get_metadata" -> get_metadata

\* The queries and the arguments callers pass them.
Queries ==
    ({"num_levels", "num_lumps", "get_metadata"} \X {0})
      \cup ({"get_level_lump_index", "get_level_name", "get_lump_name", "is_virtual_lump"} \X Positions)
      \cup ({"get_lump_index"} \X QueryNames)

\* A query (&self) by caller c: it returns its value, or panics.
Query(c, op, arg) ==
    /\ state = "Open"
    /\ calls[c].pc # "read"
    /\ IF ~InRange(op, arg)
         THEN Panic(c, op, arg, 0, "index out of bounds")
         ELSE /\ calls' = [calls EXCEPT ![c] = [pc |-> "done", op |-> op, arg |-> arg,
                                                 result |-> QueryValue(op, arg)]]
              /\ UNCHANGED <<state, err>>
    /\ UNCHANGED <<pc, fileLen, pos, rd, header, i_lump, lumps, index_map, levels, meta>>

OpenStep == OpenFile \/ OpenRead \/ ParseHeader(0..MaxLumps) \/ SeekDir \/ LoopHead \/ ParseEntry(RawLumps) \/ LoadMeta

Next ==
    \/ OpenStep
    \/ \E index \in Positions, elem \in ElemSizes : ReadLump(1, index, elem)
    \/ \E index \in Positions, elem \in ElemSizes : ReadLumpSingle(1, index, elem)
    \/ \E name \in QueryNames, elem \in ElemSizes : ReadLumpByName(1, name, elem)
    \/ CallRead(1)
    \/ \E q \in Queries : Query(1, q[1], q[2])

Spec == Init /\ [][Next]_vars

\* Two logical callers share one Archive handle and nothing serialises them:
\* the steps (seek, read) of their typed reads interleave.  The containers
\* offered hold two payload lumps.
ConcLumps == {r \in RawLumps : r.name = "E1M1" /\ r.size > 0}
ConcOpenStep == OpenFile \/ OpenRead \/ ParseHeader({2}) \/ SeekDir \/ LoopHead \/ ParseEntry(ConcLumps) \/ LoadMeta

NextConc ==
    \/ ConcOpenStep
    \/ \E c \in Callers, index \in 0..1 : ReadLump(c, index, 1)
    \/ \E c \in Callers, index \in 0..1, elem \in {1, 2} : ReadLumpSingle(c, index, elem)
    \/ \E c \in Callers : CallRead(c)

SpecConc == Init /\ [][NextConc]_vars

\* ================================================================== claims
\* The positions 0..Len(lumps)-1 whose entry carries the normalised name n.
PositionsNamed(n) == {p \in 0..(Len(lumps) - 1) : lumps[p + 1].name = n}
SetMax(S) == CHOOSE x \in S : \A y \in S : y <= x
TypedOps == {"read_lump", "read_lump_single"}
QueryOps == {q[1] : q \in Queries}
\* The bytes of the entry at position p, as the records a typed read of
\* element size elem returns.
LumpRecords(p, elem, count) ==
    Records(FileBytes(lumps[p + 1].offset, lumps[p + 1].size), elem, count)
RecordCount(call) ==
    IF call.op = "read_lump" THEN lumps[call.arg + 1].size \div call.elem ELSE 1

\* C1: once open has succeeded, get_lump_index(n) is the highest position
\* whose entry has the normalised name n, and None exactly when no entry has.
C1_LastWins ==
    state = "Open" =>
        \A n \in QueryNames :
            get_lump_index(n) =
                IF PositionsNamed(n) = {} THEN None ELSE Some(SetMax(PositionsNamed(n)))
\* An open archive in which two entries share a name and another name is absent.
C1_Witness ==
    /\ state = "Open"
    /\ Cardinality(PositionsNamed("E1M1")) >= 2
    /\ get_lump_index("E1M1") = Some(2)
    /\ get_lump_index("LINEDEFS") = None

\* C2: a sentinel-named entry at position 0 never yields an Archive, and open
\* reports it as a returned error value, not as a panic.
C2_SentinelAtZeroIsError ==
    /\ state = "Open" => (Len(lumps) = 0 \/ lumps[1].name # Sentinel)
    /\ err = "assertion failed: i_lump > 0" => state = "Failed"

\* The sentinel positions in increasing order, each minus one.
RECURSIVE MarkersUpTo(_)
MarkersUpTo(n) ==
    IF n = 0 THEN <<>>
    ELSE IF lumps[n].name = Sentinel
           THEN Append(MarkersUpTo(n - 1), (n - 1) - 1)
           ELSE MarkersUpTo(n - 1)

\* C3: once open has succeeded, levels is the sequence of p - 1 over the
\* sentinel-named positions p in directory order, without deduplication;
\* num_levels counts them, each marker is a valid position followed by a
\* sentinel entry, and get_level_name is the name at the marker.
C3_LevelMarkers ==
    state = "Open" =>
        /\ levels = MarkersUpTo(Len(lumps))
        /\ num_levels = Cardinality(PositionsNamed(Sentinel))
        /\ \A i \in 0..(num_levels - 1) :
              /\ get_level_lump_index(i) \in 0..(Len(lumps) - 2)
              /\ lumps[get_level_lump_index(i) + 2].name = Sentinel
              /\ get_level_name(i) = lumps[get_level_lump_index(i) + 1].name
\* An open archive with two consecutive sentinels: two markers, the second
\* naming a sentinel entry itself.
C3_Witness ==
    /\ state = "Open"
    /\ levels = <<0, 1>>
    /\ get_level_name(0) = "E1M1"
    /\ get_level_name(1) = Sentinel

\* C4: read_lump at a valid position, for an element size s > 0, returns
\* len / s records when len > 0 and len % s = 0, and otherwise fails with a
\* recoverable error: it never panics on the size check.
C4_ReadLumpSizeError ==
    \A c \in Callers :
        LET call == calls[c]
        IN  (call.pc \in {"done", "panicked"} /\ call.op = "read_lump" /\ call.elem > 0
                /\ call.arg < Len(lumps)) =>
                LET len == lumps[call.arg + 1].size
                IN  IF len > 0 /\ len % call.elem = 0
                      THEN call.pc = "done" => Len(call.result) = len \div call.elem
                      ELSE call.pc # "panicked"

\* C5: read_lump_single at a valid position yields its record only when the
\* length is exactly size_of::<T>(), and for any other length fails with a
\* recoverable error, without a panic.
C5_ReadSingleSizeError ==
    \A c \in Callers :
        LET call == calls[c]
        IN  (call.pc \in {"done", "panicked"} /\ call.op = "read_lump_single" /\ call.arg < Len(lumps)) =>
                IF lumps[call.arg + 1].size = call.elem
                  THEN call.pc = "done" => Len(call.result) = 1
                  ELSE call.pc # "panicked"

\* C6: open ends as an Archive (Open) or as a returned error (Failed); it
\* never aborts on the way.
C6_OpenAtomic ==
    /\ state \in {"Closed", "Opening", "Open", "Failed", "Aborted"}
    /\ state = "Aborted" => pc = "done"

\* C7: no frame of read_at_least recurses without progress: a read() that
\* returns 0 bytes for a non-empty buffer ends the read with a failure, so a
\* directory cut short stops open instead of recursing for ever.
C7_ReaderTerminates ==
    /\ rd.stall = 0
    /\ \A c \in Callers : calls[c].pc = "read" => calls[c].stall = 0
    /\ err # "stack overflow"

\* C8: once the archive is open, no step changes lumps, index_map, levels or
\* meta, and a query leaves the cursor where it was.
C8_Frame ==
    [][state = "Open" =>
          /\ archive' = archive
          /\ \A c \in Callers :
                (calls'[c] # calls[c] /\ calls'[c].pc # "idle" /\ calls'[c].op \in QueryOps)
                    => pos' = pos]_vars
\* A typed read has completed and, after it, a query.
C8_Witness ==
    /\ state = "Open"
    /\ calls[1].pc = "done"
    /\ calls[1].op = "get_lump_index"
    /\ pos = DataStart + 2

\* C9: a read() of a typed read takes its bytes from wherever the shared
\* cursor stands, whichever call put it there; a read no other call stepped
\* into returns its entry's bytes.
C9_SharedCursor ==
    /\ [](\A c \in Callers :
            (calls[c].pc = "done" /\ calls[c].op \in TypedOps /\ ~calls[c].disturbed) =>
                calls[c].result = LumpRecords(calls[c].arg, calls[c].elem, RecordCount(calls[c])))
    /\ [][\A c \in Callers :
            (calls[c].pc = "read" /\ calls'[c].pc = "read" /\ Len(calls'[c].buf) > Len(calls[c].buf)) =>
                calls'[c].buf = calls[c].buf \o FileBytes(pos, Len(calls'[c].buf) - Len(calls[c].buf))]_vars
\* A completed read whose bytes are not those of its own entry.
C9_Witness ==
    \E c \in Callers :
        /\ state = "Open"
        /\ calls[c].pc = "done"
        /\ calls[c].op \in TypedOps
        /\ calls[c].result # LumpRecords(calls[c].arg, calls[c].elem, RecordCount(calls[c]))

\* C10: with reads serialised, a completed read of position p returns the
\* size bytes at the absolute offset of entry p, whatever was read before;
\* and the directory entry open decodes was read at its place in the info
\* table, wherever the header read had left the cursor.
C10_SerialReads ==
    /\ \A c \in Callers :
          (calls[c].pc = "done" /\ calls[c].op \in TypedOps) =>
              calls[c].result = LumpRecords(calls[c].arg, calls[c].elem, RecordCount(calls[c]))
    /\ pc = "parse_entry" =>
          pos = header.info_table_offset + EntrySize * (i_lump + 1)
\* A completed read that began with the cursor behind its entry, where an
\* earlier read had left it.
C10_Witness ==
    /\ state = "Open"
    /\ calls[1].pc = "done"
    /\ calls[1].op \in TypedOps
    /\ calls[1].from = DataStart + 2
    /\ lumps[calls[1].arg + 1].offset = DataStart
    /\ Len(calls[1].result) = 2
====
